---------------------------- MODULE Spec2Model ----------------------------
(***************************************************************************)
(* Model of the catalog browser of gd_sfx (src/src/gui.rs): the catalog    *)
(* tree, the search filter, the empty-category prune, the per-node sort,   *)
(* the aggregate statistics, and the render passes of the Library,         *)
(* Favourites, Stats and Credits stages.                                   *)
(*                                                                         *)
(* Text is a sequence of byte values (String / &str), so that              *)
(* to_ascii_lowercase, contains and the byte-wise comparison of names are  *)
(* computed as Rust computes them.                                         *)
(*                                                                         *)
(* Left out, because nothing here reads them: GdSfx.selected_sfx, the      *)
(* download cache (exists / download_and_store / delete), audio playback,  *)
(* the credits list, and egui's own open/closed flag of a collapsing       *)
(* header (the body of a header is what its closure lays out when open).   *)
(* Sizes and durations are non-negative, as those of sound files are.      *)
(***************************************************************************)
EXTENDS Integers, Sequences, FiniteSets, TLC

VARIABLES
    sfx_library,   \* GdSfx.sfx_library.sound_effects: the root LibraryEntry
    stage,         \* GdSfx.stage
    search_query,  \* GdSfx.search_query, as typed (not lower-cased)
    sorting,       \* GdSfx.sorting
    favourites,    \* the process-wide favourites set (crate::favourites)
    sfx,           \* main_scroll_area's local `sfx` of the last Library pass
    ui,            \* the widgets laid out by the last pass of main_scroll_area
    pc,            \* "start" before the first frame, "running" afterwards
    node,          \* a LibraryEntry handed to the tree functions directly
    ret,           \* what the last direct call of a tree function returned
    calls          \* number of remove_empty_category_nodes calls made on node

vars == <<sfx_library, stage, search_query, sorting, favourites, sfx, ui, pc,
          node, ret, calls>>

appVars == <<sfx_library, stage, search_query, sorting, favourites, sfx, ui, pc>>
unitVars == <<node, ret, calls>>

---------------------------------------------------------------------------
(* Bounds of the checked instances.                                        *)

\* most entries below the root of a catalog the application is started with
MaxCatalogNodes == 3
\* most entries below the root of a tree handed to a tree function directly
MaxTreeNodes == 4
\* most direct calls of remove_empty_category_nodes on one tree
MaxCalls == 2

---------------------------------------------------------------------------
(* Text.                                                                   *)

\* str::to_ascii_lowercase: 'A'..'Z' (65..90) become 'a'..'z', the rest stays
to_ascii_lowercase(s) ==
    [i \in DOMAIN s |-> IF s[i] \in 65..90 THEN s[i] + 32 ELSE s[i]]

\* a contains with the Rust meaning except that an empty needle never matches
contains_nonempty(haystack, needle) ==
    /\ needle # <<>>
    /\ \E i \in 0..(Len(haystack) - Len(needle)) :
          \A j \in 1..Len(needle) : haystack[i + j] = needle[j]

\* str::contains(&str): the needle occurs as a contiguous run of bytes
contains(haystack, needle) ==
    \E i \in 0..(Len(haystack) - Len(needle)) :
        \A j \in 1..Len(needle) : haystack[i + j] = needle[j]

\* Ord::cmp on integers
cmp(a, b) == IF a < b THEN "Less" ELSE IF a > b THEN "Greater" ELSE "Equal"

RECURSIVE str_cmp(_, _)
\* Ord::cmp on str: byte-wise lexicographic, a proper prefix is Less
str_cmp(a, b) ==
    IF a = <<>> /\ b = <<>> THEN "Equal"
    ELSE IF a = <<>> THEN "Less"
    ELSE IF b = <<>> THEN "Greater"
    ELSE IF Head(a) # Head(b) THEN cmp(Head(a), Head(b))
    ELSE str_cmp(Tail(a), Tail(b))

---------------------------------------------------------------------------
(* LibraryEntry (crate::library) and its accessors.                        *)

Category(id, name, parent, children) ==
    [kind |-> "Category", id |-> id, name |-> name, parent |-> parent,
     children |-> children]

Sound(id, name, parent, bytes, duration) ==
    [kind |-> "Sound", id |-> id, name |-> name, parent |-> parent,
     bytes |-> bytes, duration |-> duration]

is_category(e) == e.kind = "Category"
entry_id(e) == e.id
entry_name(e) == e.name
entry_parent(e) == e.parent
\* bytes() and duration() of a Category are the default 0
entry_bytes(e) == IF is_category(e) THEN 0 ELSE e.bytes
entry_duration(e) == IF is_category(e) THEN 0 ELSE e.duration

Range(s) == {s[i] : i \in DOMAIN s}

RECURSIVE Concat(_)
\* concatenation of a sequence of sequences
Concat(ss) == IF ss = <<>> THEN <<>> ELSE Head(ss) \o Concat(Tail(ss))

---------------------------------------------------------------------------
(* The catalogs and queries the instances are drawn from.                  *)

\* name / bytes / duration of the sounds of a generated catalog:
\* "Ab" 500 B 200, "b" 300 B 150, "Ba" 300 B 200 (ties on bytes and duration)
Profiles ==
    << [name |-> <<65, 98>>, bytes |-> 500, duration |-> 200],
       [name |-> <<98>>,     bytes |-> 300, duration |-> 150],
       [name |-> <<66, 97>>, bytes |-> 300, duration |-> 200] >>

ProfileOf(id, flip) == Profiles[((id + flip) % Len(Profiles)) + 1]

\* what the user may have typed in the search bar: "", "a", "B", "ab", "bA"
Queries == { <<>>, <<97>>, <<66>>, <<97, 98>>, <<98, 65>> }

SoundShape == [sound |-> TRUE, kids |-> <<>>]
CategoryShape(kids) == [sound |-> FALSE, kids |-> kids]

RECURSIVE ForestShapes(_)
\* every ordered forest of sounds and categories with exactly n entries
ForestShapes(n) ==
    IF n = 0 THEN { <<>> }
    ELSE UNION { { <<t>> \o r :
                     t \in (IF k = 1 THEN {SoundShape} ELSE {})
                           \cup { CategoryShape(f) : f \in ForestShapes(k - 1) },
                     r \in ForestShapes(n - k) } : k \in 1..n }

RECURSIVE ShapeSize(_), ForestSize(_)
\* number of entries of a shape, itself included
ShapeSize(t) == 1 + ForestSize(t.kids)
ForestSize(f) == IF f = <<>> THEN 0 ELSE ShapeSize(Head(f)) + ForestSize(Tail(f))

RECURSIVE LabelTree(_, _, _, _), LabelForest(_, _, _, _)
\* ids in pre-order from `id`; parent is the id of the owning category
LabelTree(t, id, parent, flip) ==
    IF t.sound
    THEN Sound(id, ProfileOf(id, flip).name, parent,
               ProfileOf(id, flip).bytes, ProfileOf(id, flip).duration)
    ELSE Category(id, ProfileOf(id, flip).name, parent,
                  LabelForest(t.kids, id + 1, id, flip))
LabelForest(f, id, parent, flip) ==
    IF f = <<>> THEN <<>>
    ELSE <<LabelTree(Head(f), id, parent, flip)>>
         \o LabelForest(Tail(f), id + ShapeSize(Head(f)), parent, flip)

\* the generated catalogs: root id 1, parent 0, top-level entries parent 1
GeneratedCatalogs(max) ==
    { LabelTree(CategoryShape(f), 1, 0, flip) :
        f \in UNION { ForestShapes(n) : n \in 0..max },
        flip \in 0..(Len(Profiles) - 1) }

\* root(parent=0){ CategoryA(id=10,parent=0){ Sound(100,"jump",500,200),
\*                                            Sound(101,"land",300,150) } }
ScenarioCatalog ==
    Category(0, <<114>>, 0,
      << Category(10, <<65>>, 0,
           << Sound(100, <<106, 117, 109, 112>>, 10, 500, 200),
              Sound(101, <<108, 97, 110, 100>>, 10, 300, 150) >>) >>)

\* a category whose sounds have ids 3,1,2 and whose categories have ids 6,4,5
SortCatalog ==
    Category(10, <<114>>, 0,
      << Category(20, <<65>>, 10,
           << Sound(3, <<98>>, 20, 300, 150),
              Category(6, <<98>>, 20, << Sound(7, <<97>>, 6, 100, 100) >>),
              Sound(1, <<65, 98>>, 20, 500, 200),
              Category(4, <<65, 98>>, 20, << Sound(8, <<97>>, 4, 100, 100) >>),
              Sound(2, <<66, 97>>, 20, 300, 200),
              Category(5, <<98>>, 20, << Sound(9, <<97>>, 5, 100, 100) >>) >>) >>)

Catalogs == GeneratedCatalogs(MaxCatalogNodes) \cup {ScenarioCatalog, SortCatalog}
Trees == GeneratedCatalogs(MaxTreeNodes) \cup {ScenarioCatalog, SortCatalog}

Sortings == {"Default", "NameInc", "NameDec", "LengthInc", "LengthDec",
             "IdInc", "IdDec", "SizeInc", "SizeDec"}

Stages == {"Library", "Favourites", "Stats", "Credits"}

---------------------------------------------------------------------------
(* filter_sounds.                                                          *)

RECURSIVE filter_sounds_keep_empty(_, _)
\* a filter_sounds that keeps a Category whatever survives below it
filter_sounds_keep_empty(tree, filter_str) ==
    IF ~is_category(tree)
    THEN IF contains(to_ascii_lowercase(tree.name), filter_str)
         THEN <<tree>> ELSE <<>>
    ELSE << Category(tree.id, tree.name, tree.parent,
              Concat([i \in DOMAIN tree.children |->
                        filter_sounds_keep_empty(tree.children[i], filter_str)])) >>

RECURSIVE filter_sounds_case_sensitive(_, _)
\* a filter_sounds that forgets to lower-case the name
filter_sounds_case_sensitive(tree, filter_str) ==
    IF ~is_category(tree)
    THEN IF contains(tree.name, filter_str) THEN <<tree>> ELSE <<>>
    ELSE LET filtered_sounds ==
                 Concat([i \in DOMAIN tree.children |->
                           filter_sounds_case_sensitive(tree.children[i], filter_str)])
         IN  IF filtered_sounds # <<>>
             THEN << Category(tree.id, tree.name, tree.parent, filtered_sounds) >>
             ELSE <<>>

RECURSIVE filter_sounds(_, _)
filter_sounds(tree, filter_str) ==
    IF ~is_category(tree)
    THEN IF contains(to_ascii_lowercase(tree.name), filter_str)
         THEN <<tree>> ELSE <<>>
    ELSE LET filtered_sounds ==
                 Concat([i \in DOMAIN tree.children |->
                           filter_sounds(tree.children[i], filter_str)])
         IN  IF filtered_sounds # <<>>
             THEN << Category(tree.id, tree.name, tree.parent, filtered_sounds) >>
             ELSE <<>>

---------------------------------------------------------------------------
(* remove_empty_category_nodes.                                            *)

RECURSIVE remove_empty_category_nodes(_)
\* `parent` in the retain closure is the parent field of `node` itself: the
\* closure's pattern binds only the child's `children`
remove_empty_category_nodes(n) ==
    IF ~is_category(n) THEN n
    ELSE LET retain(child) ==
                 IF is_category(child)
                 THEN \/ child.children # <<>>
                      \/ \E c \in Range(child.children) : ~is_category(c)
                      \/ n.parent = 1
                 ELSE TRUE
             kept == SelectSeq(n.children, retain)
         IN  [n EXCEPT !.children =
                 [i \in DOMAIN kept |-> remove_empty_category_nodes(kept[i])]]

---------------------------------------------------------------------------
(* stats_list::recursive.                                                  *)

Add3(a, b) == <<a[1] + b[1], a[2] + b[2], a[3] + b[3]>>

RECURSIVE Reduce3(_)
\* Iterator::reduce with the component-wise sum; only called on a non-empty s
Reduce3(s) == IF Len(s) = 1 THEN s[1]
              ELSE Add3(Reduce3(SubSeq(s, 1, Len(s) - 1)), s[Len(s)])

RECURSIVE stats_counting_categories(_)
\* a recursion that counts every Category as one more node
stats_counting_categories(entry) ==
    IF is_category(entry)
    THEN IF entry.children = <<>> THEN <<0, 0, 1>>
         ELSE Add3(Reduce3([i \in DOMAIN entry.children |->
                              stats_counting_categories(entry.children[i])]),
                   <<0, 0, 1>>)
    ELSE <<entry.bytes, entry.duration, 1>>

RECURSIVE stats_recursive(_)
\* bytes and durations are non-negative here, so `as u128` keeps their value
stats_recursive(entry) ==
    IF is_category(entry)
    THEN IF entry.children = <<>> THEN <<0, 0, 1>>
         ELSE Reduce3([i \in DOMAIN entry.children |->
                         stats_recursive(entry.children[i])])
    ELSE <<entry.bytes, entry.duration, 1>>

---------------------------------------------------------------------------
(* library_list: the partition, the comparator, the sort, the widgets.     *)

\* a comparator whose IdInc / IdDec follow their names (ascending / descending)
sorting_cmp_id_by_name(mode, a, b) ==
    CASE mode = "Default"   -> "Equal"
      [] mode = "NameInc"   -> str_cmp(entry_name(a), entry_name(b))
      [] mode = "NameDec"   -> str_cmp(entry_name(b), entry_name(a))
      [] mode = "LengthInc" -> cmp(entry_duration(a), entry_duration(b))
      [] mode = "LengthDec" -> cmp(entry_duration(b), entry_duration(a))
      [] mode = "IdInc"     -> cmp(entry_id(a), entry_id(b))
      [] mode = "IdDec"     -> cmp(entry_id(b), entry_id(a))
      [] mode = "SizeInc"   -> cmp(entry_bytes(a), entry_bytes(b))
      [] mode = "SizeDec"   -> cmp(entry_bytes(b), entry_bytes(a))

\* the closure `sorting` of library_list::recursive
sorting_cmp(mode, a, b) ==
    CASE mode = "Default"   -> "Equal"
      [] mode = "NameInc"   -> str_cmp(entry_name(a), entry_name(b))
      [] mode = "NameDec"   -> str_cmp(entry_name(b), entry_name(a))
      [] mode = "LengthInc" -> cmp(entry_duration(a), entry_duration(b))
      [] mode = "LengthDec" -> cmp(entry_duration(b), entry_duration(a))
      [] mode = "IdInc"     -> cmp(entry_id(b), entry_id(a))
      [] mode = "IdDec"     -> cmp(entry_id(a), entry_id(b))
      [] mode = "SizeInc"   -> cmp(entry_bytes(a), entry_bytes(b))
      [] mode = "SizeDec"   -> cmp(entry_bytes(b), entry_bytes(a))

RECURSIVE insert_tail(_, _, _)
\* one step of the insertion sort: x moves left past every element that
\* compares Greater than it, and stops at the first that does not
insert_tail(mode, sorted, x) ==
    IF sorted = <<>> THEN <<x>>
    ELSE IF sorting_cmp(mode, x, sorted[Len(sorted)]) = "Less"
         THEN Append(insert_tail(mode, SubSeq(sorted, 1, Len(sorted) - 1), x),
                     sorted[Len(sorted)])
         ELSE Append(sorted, x)

RECURSIVE sort_by(_, _)
\* slice::sort_by: a stable sort (an insertion sort for short slices)
sort_by(mode, s) ==
    IF s = <<>> THEN <<>>
    ELSE insert_tail(mode, sort_by(mode, SubSeq(s, 1, Len(s) - 1)), s[Len(s)])

IsSound(e) == ~is_category(e)

\* children.iter().partition(|x| !x.is_category()), each side then sorted
sorted_sounds(mode, entry) == sort_by(mode, SelectSeq(entry.children, IsSound))
sorted_categories(mode, entry) == sort_by(mode, SelectSeq(entry.children, is_category))

\* widgets: a button made by sfx_button for a Sound, and a collapsing header
\* made for a Category; `of` is the id of the entry the widget was made for
Button(entry) == [w |-> "button", of |-> entry.id, entry |-> entry]
Collapsing(entry, enabled, body) ==
    [w |-> "collapsing", of |-> entry.id, label |-> entry.name,
     enabled |-> enabled, body |-> body]

RECURSIVE library_recursive(_, _)
\* library_list::recursive: the widgets laid out for `entry`, in order.  The
\* body of a collapsing header is what its closure lays out when it is open.
library_recursive(mode, entry) ==
    IF is_category(entry)
    THEN LET sounds == sorted_sounds(mode, entry)
             categories == sorted_categories(mode, entry)
         IN  IF entry_parent(entry) = 0
             THEN Concat([i \in DOMAIN categories |->
                            library_recursive(mode, categories[i])])
             ELSE << Collapsing(entry, ~(sounds = <<>> /\ categories = <<>>),
                       Concat([i \in DOMAIN categories |->
                                 library_recursive(mode, categories[i])])
                       \o Concat([i \in DOMAIN sounds |->
                                 library_recursive(mode, sounds[i])])) >>
    ELSE << Button(entry) >>

---------------------------------------------------------------------------
(* favourites (crate::favourites) and favourites_list.                     *)

has_favourite(favs, id) == id \in favs
add_favourite(favs, id) == favs \cup {id}
remove_favourite(favs, id) == favs \ {id}

RECURSIVE favourites_recursive_ignoring_query(_, _, _)
\* a favourites_list that shows every favourite whatever the query
favourites_recursive_ignoring_query(favs, query, entry) ==
    IF is_category(entry)
    THEN Concat([i \in DOMAIN entry.children |->
                   favourites_recursive_ignoring_query(favs, query, entry.children[i])])
    ELSE IF has_favourite(favs, entry.id) THEN << Button(entry) >> ELSE <<>>

RECURSIVE favourites_recursive(_, _, _)
\* favourites_list::recursive: the buttons laid out for `entry`, in order
favourites_recursive(favs, query, entry) ==
    IF is_category(entry)
    THEN Concat([i \in DOMAIN entry.children |->
                   favourites_recursive(favs, query, entry.children[i])])
    ELSE IF /\ has_favourite(favs, entry.id)
            /\ contains(to_ascii_lowercase(entry.name), to_ascii_lowercase(query))
         THEN << Button(entry) >>
         ELSE <<>>

---------------------------------------------------------------------------
(* main_scroll_area: what one pass computes and lays out.                  *)

\* Stage::Library: filter_sounds on the lower-cased query, then, when the
\* vector is not empty, remove_empty_category_nodes on sfx[0]
library_sfx(lib, query) ==
    LET filtered == filter_sounds(lib, to_ascii_lowercase(query))
    IN  IF filtered # <<>>
        THEN << remove_empty_category_nodes(filtered[1]) >> \o Tail(filtered)
        ELSE filtered

\* the widgets of the scroll area for the stage shown
scroll_area(st, lib, query, mode, favs) ==
    CASE st = "Library" ->
            LET v == library_sfx(lib, query)
            IN  IF v # <<>> THEN library_recursive(mode, v[1]) ELSE <<>>
      [] st = "Favourites" -> favourites_recursive(favs, query, lib)
      [] st = "Stats" -> << [w |-> "stats", total |-> stats_recursive(lib)] >>
      [] st = "Credits" -> << [w |-> "credits"] >>

RECURSIVE Widgets(_)
\* every widget laid out, the bodies of the collapsing headers included
Widgets(ws) ==
    Concat([i \in DOMAIN ws |->
              <<ws[i]>> \o (IF ws[i].w = "collapsing" THEN Widgets(ws[i].body) ELSE <<>>)])

ButtonIdsShown(ws) ==
    { Widgets(ws)[i].of : i \in { k \in DOMAIN Widgets(ws) : Widgets(ws)[k].w = "button" } }

\* the part of GdSfx::update every frame runs: the pass over the scroll area
Render(st, query, mode) ==
    /\ sfx' = IF st = "Library" THEN library_sfx(sfx_library, query) ELSE <<>>
    /\ ui' = scroll_area(st, sfx_library, query, mode, favourites)
    /\ pc' = "running"

---------------------------------------------------------------------------
(* The frames of the application, one per kind of input.                   *)

Frame ==
    /\ Render(stage, search_query, sorting)
    /\ UNCHANGED <<sfx_library, stage, search_query, sorting, favourites, unitVars>>

\* top_panel: a click on a stage tab, seen by the pass of the same frame
SelectStage(s) ==
    /\ stage' = s
    /\ Render(s, search_query, sorting)
    /\ UNCHANGED <<sfx_library, search_query, sorting, favourites, unitVars>>

\* search_bar: the text edit, shown in the Library and Favourites stages
EditQuery(q) ==
    /\ stage \in {"Library", "Favourites"}
    /\ search_query' = q
    /\ Render(stage, q, sorting)
    /\ UNCHANGED <<sfx_library, stage, sorting, favourites, unitVars>>

\* sort_menu: a radio button, shown in the Library and Favourites stages
SelectSorting(m) ==
    /\ stage \in {"Library", "Favourites"}
    /\ sorting' = m
    /\ Render(stage, search_query, m)
    /\ UNCHANGED <<sfx_library, stage, search_query, favourites, unitVars>>

\* sfx_button's context menu on a button laid out in this frame: "Remove
\* favourite" when the id is a favourite, "Favourite" otherwise
ToggleFavourite(id) ==
    /\ Render(stage, search_query, sorting)
    /\ id \in ButtonIdsShown(ui')
    /\ favourites' = IF has_favourite(favourites, id)
                     THEN remove_favourite(favourites, id)
                     ELSE add_favourite(favourites, id)
    /\ UNCHANGED <<sfx_library, stage, search_query, sorting, unitVars>>

---------------------------------------------------------------------------
(* Direct calls of the tree functions on an arbitrary tree.                *)

CallFilter(q) ==
    /\ ret' = [fn |-> "filter_sounds", q |-> q,
               val |-> filter_sounds(node, to_ascii_lowercase(q))]
    /\ UNCHANGED <<node, calls, appVars>>

CallPrune ==
    /\ calls < MaxCalls
    /\ node' = remove_empty_category_nodes(node)
    /\ ret' = [fn |-> "remove_empty_category_nodes", before |-> node]
    /\ calls' = calls + 1
    /\ UNCHANGED appVars

CallStats ==
    /\ ret' = [fn |-> "stats", val |-> stats_recursive(node)]
    /\ UNCHANGED <<node, calls, appVars>>

---------------------------------------------------------------------------
(* Specifications.                                                         *)

RECURSIVE Leaves(_)
\* the Sounds of a tree, in tree order
Leaves(e) ==
    IF is_category(e) THEN Concat([i \in DOMAIN e.children |-> Leaves(e.children[i])])
    ELSE <<e>>

SoundIds(e) == { Leaves(e)[i].id : i \in DOMAIN Leaves(e) }

\* GdSfx::default() with the catalog loaded; with `persisted` the favourites
\* store holds what earlier runs left in it
InitApp(catalogs, persisted) ==
    /\ sfx_library \in catalogs
    /\ stage = "Library"
    /\ search_query = <<>>
    /\ sorting = "Default"
    /\ favourites \in (IF persisted THEN SUBSET SoundIds(sfx_library) ELSE {{}})
    /\ sfx = <<>>
    /\ ui = <<>>
    /\ pc = "start"
    /\ node = sfx_library
    /\ ret = [fn |-> "none"]
    /\ calls = 0

\* the whole application on the scenario catalog
Init == InitApp({ScenarioCatalog}, TRUE)
Next ==
    \/ Frame
    \/ \E s \in Stages : SelectStage(s)
    \/ \E q \in Queries : EditQuery(q)
    \/ \E m \in Sortings : SelectSorting(m)
    \/ \E id \in SoundIds(sfx_library) : ToggleFavourite(id)
Spec == Init /\ [][Next]_vars

\* the Library stage on every catalog
InitLibrary == InitApp(Catalogs, FALSE)
NextLibrary ==
    \/ Frame
    \/ \E q \in Queries : EditQuery(q)
    \/ \E m \in Sortings : SelectSorting(m)
SpecLibrary == InitLibrary /\ [][NextLibrary]_vars

\* the Library and Favourites stages on every catalog, with the favourites
\* of earlier runs
InitFavourites == InitApp(Catalogs, TRUE)
NextFavourites ==
    \/ Frame
    \/ \E s \in {"Library", "Favourites"} : SelectStage(s)
    \/ \E q \in Queries : EditQuery(q)
    \/ \E id \in SoundIds(sfx_library) : ToggleFavourite(id)
SpecFavourites == InitFavourites /\ [][NextFavourites]_vars

\* the tree functions called on every tree
InitTree ==
    /\ node \in Trees
    /\ ret = [fn |-> "none"]
    /\ calls = 0
    /\ sfx_library = node
    /\ stage = "Library"
    /\ search_query = <<>>
    /\ sorting = "Default"
    /\ favourites = {}
    /\ sfx = <<>>
    /\ ui = <<>>
    /\ pc = "start"
NextTree ==
    \/ \E q \in Queries : CallFilter(q)
    \/ CallPrune
    \/ CallStats
SpecTree == InitTree /\ [][NextTree]_vars

---------------------------------------------------------------------------
(* Vocabulary of the properties.                                           *)

RECURSIVE SubEntries(_)
\* every entry of a tree, itself included, in pre-order
SubEntries(e) ==
    <<e>> \o (IF is_category(e)
              THEN Concat([i \in DOMAIN e.children |-> SubEntries(e.children[i])])
              ELSE <<>>)

IdsOf(s) == [i \in DOMAIN s |-> s[i].id]
EntryIds(e) == Range(IdsOf(SubEntries(e)))
LeavesOfAll(v) == Concat([i \in DOMAIN v |-> Leaves(v[i])])

\* two bytes that are equal up to the case of an ASCII letter
SameLetter(a, b) ==
    \/ a = b
    \/ a \in 65..90 /\ b = a + 32
    \/ b \in 65..90 /\ a = b + 32

\* name contains q as a case-insensitive substring
MatchesQuery(name, q) ==
    \E i \in 0..(Len(name) - Len(q)) :
        \A j \in 1..Len(q) : SameLetter(name[i + j], q[j])

SoundsMatching(e, q) ==
    LET Match(x) == MatchesQuery(x.name, q) IN SelectSeq(Leaves(e), Match)

Categories(e) == SelectSeq(SubEntries(e), is_category)

\* every Category of the tree has a Sound somewhere below it
EveryCategoryHasSound(e) ==
    \A i \in DOMAIN Categories(e) : Leaves(Categories(e)[i]) # <<>>

Called(fn) == ret.fn = fn

---------------------------------------------------------------------------
(* C1: filter_sounds(T, q), q lower-cased by the caller, holds exactly the *)
(* Sounds of T whose name contains q case-insensitively: none that fails   *)
(* the match, none that passes it missing.                                 *)
C1_FilterExact ==
    Called("filter_sounds") =>
        LeavesOfAll(ret.val) = SoundsMatching(node, ret.q)

C1_Witness ==
    /\ Called("filter_sounds")
    /\ ret.q = <<98, 65>>
    /\ LeavesOfAll(ret.val) # <<>>
    /\ Len(LeavesOfAll(ret.val)) < Len(Leaves(node))

---------------------------------------------------------------------------
(* C7, as claimed: filter_sounds(T, "") returns exactly one tree, equal to *)
(* T, for every tree T.                                                    *)
C7_EmptyQueryIsIdentity ==
    (Called("filter_sounds") /\ ret.q = <<>>) => ret.val = <<node>>

(* C7, amended: filter_sounds(T, "") keeps every Sound of T in order and   *)
(* every Category with a Sound below it, and drops every Category with     *)
(* none; it returns exactly <<T>> when every Category of T has a Sound     *)
(* below it, and nothing when T has no Sound at all.                       *)
C7_EmptyQueryKeepsSounds ==
    (Called("filter_sounds") /\ ret.q = <<>>) =>
        /\ Len(ret.val) <= 1
        /\ LeavesOfAll(ret.val) = Leaves(node)
        /\ (ret.val = <<>>) <=> (Leaves(node) = <<>>)
        /\ EveryCategoryHasSound(node) => ret.val = <<node>>
        /\ ret.val # <<>> =>
             LET HasSound(c) == Leaves(c) # <<>>
             IN  IdsOf(Categories(ret.val[1])) =
                    IdsOf(SelectSeq(Categories(node), HasSound))

C7_Witness ==
    /\ Called("filter_sounds") /\ ret.q = <<>>
    /\ ret.val # <<>> /\ ret.val # <<node>>
    /\ Len(Leaves(node)) >= 2

---------------------------------------------------------------------------
(* C2, as claimed: a second remove_empty_category_nodes on a tree changes  *)
(* nothing the first did not already change.                               *)
C2_PruneIdempotent ==
    (Called("remove_empty_category_nodes") /\ calls = 2) => node = ret.before

---------------------------------------------------------------------------
(* C3, as claimed: remove_empty_category_nodes never removes a Category    *)
(* whose own parent field is 1 from a Category that is itself kept.        *)
C3_ParentOneRetained ==
    Called("remove_empty_category_nodes") =>
        \A i \in DOMAIN Categories(ret.before) :
            LET p == Categories(ret.before)[i]
            IN  p.id \in EntryIds(node) =>
                  \A k \in DOMAIN p.children :
                      (is_category(p.children[k]) /\ p.children[k].parent = 1)
                          => p.children[k].id \in EntryIds(node)

---------------------------------------------------------------------------
(* C4, as claimed: the statistics of the scenario catalog are              *)
(* (800, 350, 3).                                                          *)
C4_ScenarioCountsThree ==
    (pc = "running" /\ stage = "Stats" /\ sfx_library = ScenarioCatalog) =>
        ui = << [w |-> "stats", total |-> <<800, 350, 3>>] >>

(* C4, amended: the statistics of the scenario catalog are (800, 350, 2):  *)
(* the two Sounds are counted, the two Categories above them are not.      *)
C4_ScenarioCountsTwo ==
    (pc = "running" /\ stage = "Stats" /\ sfx_library = ScenarioCatalog) =>
        ui = << [w |-> "stats", total |-> <<800, 350, 2>>] >>

C4_Witness ==
    pc = "running" /\ stage = "Stats" /\ sfx_library = ScenarioCatalog

---------------------------------------------------------------------------
(* C5: a Sound yields (bytes, duration, 1), a Category without children    *)
(* (0, 0, 1), and a Category with children the component-wise sum of the   *)
(* triples of its children; so the triple of a tree is the bytes and the   *)
(* durations of its Sounds and the number of its Sounds and childless      *)
(* Categories.                                                             *)
RECURSIVE SumOf(_)
SumOf(s) == IF s = <<>> THEN 0 ELSE Head(s) + SumOf(Tail(s))

C5_StatsAdditive ==
    Called("stats") =>
        /\ \A i \in DOMAIN SubEntries(node) :
             LET e == SubEntries(node)[i]
                 t == stats_recursive(e)
             IN  IF ~is_category(e) THEN t = <<e.bytes, e.duration, 1>>
                 ELSE IF e.children = <<>> THEN t = <<0, 0, 1>>
                 ELSE \A c \in 1..3 :
                        t[c] = SumOf([k \in DOMAIN e.children |->
                                        stats_recursive(e.children[k])[c]])
        /\ LET Childless(e) == is_category(e) /\ e.children = <<>>
           IN  ret.val =
                 << SumOf([k \in DOMAIN Leaves(node) |-> Leaves(node)[k].bytes]),
                    SumOf([k \in DOMAIN Leaves(node) |-> Leaves(node)[k].duration]),
                    Len(Leaves(node)) + Len(SelectSeq(SubEntries(node), Childless)) >>

C5_Witness ==
    /\ Called("stats")
    /\ Len(Leaves(node)) >= 2
    /\ \E i \in DOMAIN Categories(node) :
          Categories(node)[i].children = <<>>
    /\ \E i \in DOMAIN Categories(node) :
          Len(Categories(node)[i].children) >= 2 /\ Categories(node)[i].id # 1

---------------------------------------------------------------------------
(* C6: within the categories and within the sounds of a Category, Default  *)
(* keeps the child order, Name / Length / Size order by name / duration /  *)
(* bytes, ascending for Inc and descending for Dec, IdInc orders by id     *)
(* descending and IdDec by id ascending, and children with equal keys keep *)
(* their relative order; ids 3,1,2 give 3,2,1 under IdInc and 1,2,3 under  *)
(* IdDec.                                                                  *)

\* a is before b in the byte-wise lexicographic order
StrLess(a, b) ==
    \E k \in 1..Len(b) :
        /\ \A j \in 1..(k - 1) : j <= Len(a) /\ a[j] = b[j]
        /\ k = Len(a) + 1 \/ (k <= Len(a) /\ a[k] < b[k])

\* the key of a precedes the key of b in the order the mode stands for
KeyBefore(mode, a, b) ==
    CASE mode = "Default"   -> FALSE
      [] mode = "NameInc"   -> StrLess(a.name, b.name)
      [] mode = "NameDec"   -> StrLess(b.name, a.name)
      [] mode = "LengthInc" -> entry_duration(a) < entry_duration(b)
      [] mode = "LengthDec" -> entry_duration(a) > entry_duration(b)
      [] mode = "IdInc"     -> a.id > b.id
      [] mode = "IdDec"     -> a.id < b.id
      [] mode = "SizeInc"   -> entry_bytes(a) < entry_bytes(b)
      [] mode = "SizeDec"   -> entry_bytes(a) > entry_bytes(b)

\* ids lists the entries of group once each, by key, ties in group order
InOrder(mode, group, ids) ==
    LET Pos(id) == CHOOSE k \in DOMAIN group : group[k].id = id IN
    /\ Len(ids) = Len(group)
    /\ Range(ids) = Range(IdsOf(group))
    /\ \A i, j \in DOMAIN ids :
         i < j => LET a == group[Pos(ids[i])]
                      b == group[Pos(ids[j])]
                  IN  \/ KeyBefore(mode, a, b)
                      \/ ~KeyBefore(mode, b, a) /\ Pos(ids[i]) < Pos(ids[j])

IsHeader(x) == x.w = "collapsing"
IsButton(x) == x.w = "button"
HeaderIds(ws) == [i \in DOMAIN SelectSeq(ws, IsHeader) |-> SelectSeq(ws, IsHeader)[i].of]
ButtonIds(ws) == [i \in DOMAIN SelectSeq(ws, IsButton) |-> SelectSeq(ws, IsButton)[i].of]

EntryWithId(e, id) ==
    SubEntries(e)[CHOOSE k \in DOMAIN SubEntries(e) : SubEntries(e)[k].id = id]

C6_SortOrder ==
    (pc = "running" /\ stage = "Library") =>
        \* the two sorted groups of every Category of the catalog
        /\ \A i \in DOMAIN Categories(sfx_library) :
             LET c == Categories(sfx_library)[i]
             IN  /\ InOrder(sorting, SelectSeq(c.children, is_category),
                            IdsOf(sorted_categories(sorting, c)))
                 /\ InOrder(sorting, SelectSeq(c.children, IsSound),
                            IdsOf(sorted_sounds(sorting, c)))
        \* the headers and the buttons under every header laid out
        /\ \A i \in DOMAIN Widgets(ui) :
             LET x == Widgets(ui)[i]
             IN  IsHeader(x) =>
                   LET c == EntryWithId(sfx[1], x.of)
                   IN  /\ InOrder(sorting, SelectSeq(c.children, is_category),
                                  HeaderIds(x.body))
                       /\ InOrder(sorting, SelectSeq(c.children, IsSound),
                                  ButtonIds(x.body))
        \* the example
        /\ (sfx_library = SortCatalog /\ search_query = <<>>) =>
             /\ sorting = "IdInc" => /\ ButtonIds(ui[1].body) = <<3, 2, 1>>
                                     /\ HeaderIds(ui[1].body) = <<6, 5, 4>>
             /\ sorting = "IdDec" => /\ ButtonIds(ui[1].body) = <<1, 2, 3>>
                                     /\ HeaderIds(ui[1].body) = <<4, 5, 6>>
             /\ sorting = "Default" => /\ ButtonIds(ui[1].body) = <<3, 1, 2>>
                                       /\ HeaderIds(ui[1].body) = <<6, 4, 5>>

C6_Witness ==
    /\ pc = "running" /\ stage = "Library"
    /\ sfx_library = SortCatalog /\ search_query = <<>>
    /\ sorting = "IdInc"
    /\ ButtonIds(ui[1].body) = <<3, 2, 1>>

---------------------------------------------------------------------------
(* C8: a Favourites pass lays out exactly the Sounds of the catalog whose  *)
(* id is in the favourites set when the pass starts and whose name         *)
(* contains the query of the pass case-insensitively, each once, in        *)
(* catalog order, and nothing for a Category.                              *)
C8_FavouritesShown ==
    [][ stage' = "Favourites" =>
          LET Shown(x) == x.id \in favourites /\ MatchesQuery(x.name, search_query')
              expected == SelectSeq(Leaves(sfx_library), Shown)
          IN  ui' = [i \in DOMAIN expected |-> Button(expected[i])] ]_vars

C8_Witness ==
    /\ pc = "running" /\ stage = "Favourites"
    /\ search_query = <<66>>
    /\ ui # <<>>
    /\ \E i \in DOMAIN Leaves(sfx_library) :
          LET x == Leaves(sfx_library)[i]
          IN  x.id \in favourites /\ ~MatchesQuery(x.name, search_query)
    /\ \E i \in DOMAIN Leaves(sfx_library) :
          LET x == Leaves(sfx_library)[i]
          IN  x.id \notin favourites /\ MatchesQuery(x.name, search_query)

---------------------------------------------------------------------------
(* C9, as claimed: a Library pass lays out every Sound of the filtered     *)
(* tree exactly once, and under every Category, the root included, the     *)
(* category children before the sound children.                            *)
C9_EverySoundRendered ==
    (pc = "running" /\ stage = "Library" /\ sfx # <<>>) =>
        /\ \A i \in DOMAIN Leaves(sfx[1]) :
             Cardinality({ k \in DOMAIN Widgets(ui) :
                             /\ IsButton(Widgets(ui)[k])
                             /\ Widgets(ui)[k].of = Leaves(sfx[1])[i].id }) = 1
        /\ \A i \in DOMAIN Widgets(ui) :
             IsHeader(Widgets(ui)[i]) =>
                \A a, b \in DOMAIN Widgets(ui)[i].body :
                    (IsButton(Widgets(ui)[i].body[a]) /\ IsHeader(Widgets(ui)[i].body[b]))
                        => b < a

---------------------------------------------------------------------------
(* C10: in the Library pass filter_sounds returns at most one tree, every  *)
(* Category of it has a Sound below it, and remove_empty_category_nodes    *)
(* removes nothing from it: the tree laid out is the filter result.        *)
C10_PruneAfterFilterIsNoOp ==
    (pc = "running" /\ stage = "Library") =>
        /\ Len(sfx) <= 1
        /\ sfx = filter_sounds(sfx_library, to_ascii_lowercase(search_query))
        /\ sfx # <<>> => EveryCategoryHasSound(sfx[1])

C10_Witness ==
    /\ pc = "running" /\ stage = "Library"
    /\ search_query = <<97, 98>>
    /\ sfx # <<>> /\ sfx[1] # sfx_library
    /\ Len(Categories(sfx[1])) >= 2

=============================================================================
